---------------------------- MODULE Spec2Model ----------------------------
(***************************************************************************)
(* Model of the telegram-id rate limiter (package                          *)
(* traefik_telegram_ratelimiter, final iteration of tgratelimiter.go):     *)
(* the expiring hit-counter store (expiryMap), the admission decision      *)
(* (rateLimiter.rejectedTgID) and the request handler (ServeHTTP).         *)
(***************************************************************************)
EXTENDS Integers, Sequences, FiniteSets, TLC

(***************************************************************************)
(* Bounds of the model.                                                    *)
(***************************************************************************)
MaxTime == 2
MaxHits == 2
NProcs == 2

(***************************************************************************)
(* Program constants.                                                      *)
(***************************************************************************)
\* const isDeletedID int64 = -1 << 63.  TLC's integers are 32 bits wide, so the
\* most negative representable value stands for the most negative int64.
isDeletedID == -2147483647 - 1

\* Telegram ids a request can carry that differ from the sentinel.
TgIDs == {1, 2, 3}
\* Every id a request can carry: extractTgID returns any int64.
AnyIDs == TgIDs \cup {isDeletedID}

\* The limits a configuration may set (Config.Limit, Config.WhitelistLimit):
\* no limit, no hit allowed, one hit allowed.
Limits == {-1, 0, 1}

\* The values of Config.HitTableSize explored: tables the three ids overflow.
HitTableSizes == {1, 2}

\* The values of Config.Expire explored, in seconds.
Expires == {1}

\* The ids the configured whitelist and blacklist sources may name.
ListedIDs == {1}

VARIABLES
    e,          \* the expiryMap: [cap, idxs, hits, head, size]
    now,        \* time.Now().UTC().Unix()
    expire,     \* rateLimiter.expire
    limit,      \* rateLimiter.limit
    wlLimit,    \* rateLimiter.wlLimit
    whitelist,  \* rateLimiter.whitelist
    blacklist,  \* rateLimiter.blacklist
    last,       \* outcome of the last completed operation (what its caller saw)
    firstHits,  \* history: the ids hit so far, while every hit was the first of its id
    born,       \* history: the tracked ids, in the order their entries were created
    quota,      \* history: per id, the accepted hits of its current expire period
    mu,         \* expiryMap.mu: 0 when unlocked, else the goroutine holding it
    pc,         \* per goroutine, the statement of the store call it is at
    call,       \* per goroutine, the arguments and locals of its store call
    rets,       \* history: per id, the counts returned since its entry was created
    config,     \* the *Config handed to New
    inst,       \* what New came to: "none" (not called), "serving", "failed", "panicked"
    nilLists,   \* whether r.whitelist and r.blacklist are still the nil maps
    rwmu,       \* rateLimiter.rwmu: [w: the goroutine holding Lock or 0, r: those holding RLock]
    job,        \* per handler goroutine, the request it handles, where it is, its locals
    added,      \* history: per list, the ids whose add was answered 201 and not undone since
    removed     \* history: per list, the ids whose remove was answered 204 and not undone since

admVars == <<rwmu, job, added, removed>>
cfgVars == <<expire, limit, wlLimit, whitelist, blacklist, config, inst, nilLists,
             admVars>>
goVars == <<mu, pc, call, rets>>
histVars == <<last, firstHits, born, quota>>
vars == <<e, now, expire, limit, wlLimit, whitelist, blacklist, last,
          firstHits, born, quota, mu, pc, call, rets, config, inst, nilLists,
          rwmu, job, added, removed>>

(***************************************************************************)
(* The expiring counter store.                                             *)
(***************************************************************************)
\* type expiryHits struct { id int64; hits int32; expires int64 }
expiryHits(id, h, expires) == [id |-> id, hits |-> h, expires |-> expires]

\* make([]expiryHits, capacity) fills the array with zero values.
zeroHits == expiryHits(0, 0, 0)

\* make(map[int64]T): a map with no key.
emptyMap == [x \in {} |-> 0]

\* newExpiryMap(capacity)
newExpiryMap(capacity) ==
    [cap  |-> capacity,
     idxs |-> emptyMap,
     hits |-> [i \in 0..(capacity - 1) |-> zeroHits],
     head |-> 0,
     size |-> 0]

\* _, ok := m[k]
has(m, k) == k \in DOMAIN m

\* delete(m, k)
mapDelete(m, k) == [x \in (DOMAIN m) \ {k} |-> m[x]]

\* m[k] = v
mapPut(m, k, v) == [x \in (DOMAIN m) \cup {k} |-> IF x = k THEN v ELSE m[x]]

\* hits++ on an int32 wraps around.
int32inc(h) == IF h = 2147483647 THEN -2147483647 - 1 ELSE h + 1

\* func (e *expiryMap) full() bool
full(m) == m.size = m.cap

\* free's loop body without the removal of the id mapping.
freeOneKeepsKey(m) ==
    [m EXCEPT !.hits[m.head].id = isDeletedID,
              !.head = (m.head + 1) % m.cap,
              !.size = m.size - 1]

\* func (e *expiryMap) free(count int): one iteration of the loop body.
freeOne(m) ==
    LET id == m.hits[m.head].id
        m1 == IF id # isDeletedID
              THEN [m EXCEPT !.idxs = mapDelete(m.idxs, id),
                             !.hits[m.head].id = isDeletedID]
              ELSE m
    IN  [m1 EXCEPT !.head = (m.head + 1) % m.cap,
                   !.size = m.size - 1]

RECURSIVE free(_, _)
free(m, count) ==
    IF count <= 0 \/ m.size = 0
    THEN m
    ELSE free(freeOne(m), count - 1)

\* func (e *expiryMap) insert(h expiryHits)
insert(m, h) ==
    LET m1  == IF full(m) THEN free(m, 1) ELSE m
        idx == (m1.head + m1.size) % m1.cap
    IN  [m1 EXCEPT !.idxs = mapPut(m1.idxs, h.id, idx),
                   !.hits[idx] = h,
                   !.size = m1.size + 1]

\* An expiry test that already fires in the second the entry expires.
expiredAtDeadline(m, idx, t) == m.hits[idx].expires <= t

\* e.hits[idx].expires < time.Now().UTC().Unix()
expired(m, idx, t) == m.hits[idx].expires < t

\* incNGet whose expired branch leaves the id in the superseded slot.
incNGetKeepsOldID(m, id, exp, t) ==
    IF ~has(m.idxs, id)
    THEN [e |-> insert(m, expiryHits(id, 1, t + exp)), ret |-> 1]
    ELSE LET idx == m.idxs[id] IN
         IF expired(m, idx, t)
         THEN LET m1 == [m EXCEPT !.idxs = mapDelete(m.idxs, id)]
              IN  [e |-> insert(m1, expiryHits(id, 1, t + exp)), ret |-> 1]
         ELSE LET h == int32inc(m.hits[idx].hits)
              IN  [e |-> [m EXCEPT !.hits[idx].hits = h], ret |-> h]

\* incNGet whose hit on a live entry starts the entry's expire period anew.
incNGetRenews(m, id, exp, t) ==
    IF ~has(m.idxs, id)
    THEN [e |-> insert(m, expiryHits(id, 1, t + exp)), ret |-> 1]
    ELSE LET idx == m.idxs[id] IN
         IF expired(m, idx, t)
         THEN LET m1 == [m EXCEPT !.idxs = mapDelete(m.idxs, id),
                                  !.hits[idx].id = isDeletedID]
              IN  [e |-> insert(m1, expiryHits(id, 1, t + exp)), ret |-> 1]
         ELSE LET h == int32inc(m.hits[idx].hits)
              IN  [e |-> [m EXCEPT !.hits[idx].hits = h,
                                   !.hits[idx].expires = t + exp],
                   ret |-> h]

\* func (e *expiryMap) incNGet(id int64, expire int64) int32, the body under
\* e.mu: the store after the call and the value returned.  With a clock that
\* does not run backwards the two reads of time.Now() in the expired branch
\* give the same store as one read at the later instant.
incNGet(m, id, exp, t) ==
    IF ~has(m.idxs, id)
    THEN [e |-> insert(m, expiryHits(id, 1, t + exp)), ret |-> 1]
    ELSE LET idx == m.idxs[id] IN
         IF expired(m, idx, t)
         THEN LET m1 == [m EXCEPT !.idxs = mapDelete(m.idxs, id),
                                  !.hits[idx].id = isDeletedID]
              IN  [e |-> insert(m1, expiryHits(id, 1, t + exp)), ret |-> 1]
         ELSE LET h == int32inc(m.hits[idx].hits)
              IN  [e |-> [m EXCEPT !.hits[idx].hits = h], ret |-> h]

\* get without the expiry test.
getIgnoresExpiry(m, id, t) ==
    IF ~has(m.idxs, id) THEN 0 ELSE m.hits[m.idxs[id]].hits

\* func (e *expiryMap) get(id int64) int32
get(m, id, t) ==
    IF ~has(m.idxs, id)
    THEN 0
    ELSE IF expired(m, m.idxs[id], t)
         THEN 0
         ELSE m.hits[m.idxs[id]].hits

\* A get that renews the TTL of the live entry it reads.
getRenews(m, id, t) ==
    IF has(m.idxs, id) /\ ~expired(m, m.idxs[id], t)
    THEN [m EXCEPT !.hits[m.idxs[id]].expires = @ + 1]
    ELSE m

\* The store that get leaves behind: no statement of get assigns to a field
\* of the expiryMap.
getLeaves(m, id, t) == m

\* A reset that removes the entry instead of zeroing its count.
resetRemoves(m, id) ==
    IF has(m.idxs, id)
    THEN [e |-> [m EXCEPT !.idxs = mapDelete(m.idxs, id),
                          !.hits[m.idxs[id]].id = isDeletedID],
          ret |-> TRUE]
    ELSE [e |-> m, ret |-> FALSE]

\* A reset that passes over an entry that has expired.
resetLiveOnly(m, id) ==
    IF has(m.idxs, id) /\ ~expired(m, m.idxs[id], now)
    THEN [e |-> [m EXCEPT !.hits[m.idxs[id]].hits = 0], ret |-> TRUE]
    ELSE [e |-> m, ret |-> FALSE]

\* func (e *expiryMap) reset(id int64) bool
reset(m, id) ==
    IF has(m.idxs, id)
    THEN [e |-> [m EXCEPT !.hits[m.idxs[id]].hits = 0], ret |-> TRUE]
    ELSE [e |-> m, ret |-> FALSE]

\* The slots of the occupied window, head first.
window(m) == {(m.head + i) % m.cap : i \in 0..(m.size - 1)}

\* func (e *expiryMap) list() map[int64]int32: later slots overwrite the
\* value of an earlier slot with the same id.
RECURSIVE listFrom(_, _, _)
listFrom(m, i, acc) ==
    IF i >= m.size
    THEN acc
    ELSE LET j == (m.head + i) % m.cap
         IN  listFrom(m, i + 1, mapPut(acc, m.hits[j].id, m.hits[j].hits))

list(m) == listFrom(m, 0, emptyMap)

(***************************************************************************)
(* The admission decision and the request handler.                         *)
(***************************************************************************)
\* The id recorded for an operation that carries none (extractTgID returned
\* an error, or the command names no id).
NoID == 0

\* A caller's view of an operation that completed.
\* ret is the count returned, found the result of reset, all the result of
\* list, rejected the verdict and next whether the next handler was called.
Outcome(op, id, ret, rejected, next) ==
    [op |-> op, id |-> id, ret |-> ret, found |-> FALSE, all |-> emptyMap,
     rejected |-> rejected, next |-> next, list |-> "none", status |-> 0,
     err |-> FALSE]

\* The sources updateLists reads, in the order it reads them.
Sources == {"Whitelist", "WhitelistURL", "Blacklist", "BlacklistURL"}

\* func CreateConfig() *Config: no list source, no console; the table size is
\* the one the configuration file then puts in (the default is 50000).
CreateConfig(size) ==
    [HitTableSize |-> size, Whitelist |-> FALSE, WhitelistURL |-> FALSE,
     Blacklist |-> FALSE, BlacklistURL |-> FALSE,
     Console |-> FALSE, ConsoleAddress |-> FALSE]

\* A limit test that already rejects the hit that reaches the limit.
overLimitInclusive(h, lim) == lim >= 0 /\ h >= lim

\* if r.wlLimit >= 0 && hits > r.wlLimit / else if r.limit >= 0 && hits > r.limit
overLimit(h, lim) == lim >= 0 /\ h > lim

\* A decision that counts the hit before it looks at the blacklist.
rejectedCountsFirst(m, tgID, exp, t, bl, wl, lim, wlLim) ==
    LET r == incNGet(m, tgID, exp, t)
    IN  [e |-> r.e,
         hits |-> r.ret,
         rejected |-> \/ tgID \in bl
                      \/ IF tgID \in wl
                         THEN overLimit(r.ret, wlLim)
                         ELSE overLimit(r.ret, lim)]

\* A decision that applies the regular limit to whitelisted ids too.
rejectedIgnoresWhitelist(m, tgID, exp, t, bl, wl, lim, wlLim) ==
    IF tgID \in bl
    THEN [e |-> m, hits |-> 0, rejected |-> TRUE]
    ELSE LET r == incNGet(m, tgID, exp, t)
         IN  [e |-> r.e, hits |-> r.ret, rejected |-> overLimit(r.ret, lim)]

\* func (r *rateLimiter) rejectedTgID(tgID int64) bool, under r.rwmu.RLock():
\* the store after the call, the hit count read (0 when the store was not
\* consulted) and the verdict.
rejectedTgID(m, tgID, exp, t, bl, wl, lim, wlLim) ==
    IF tgID \in bl
    THEN [e |-> m, hits |-> 0, rejected |-> TRUE]
    ELSE LET isWl == tgID \in wl
             r    == incNGet(m, tgID, exp, t)
         IN  [e |-> r.e,
              hits |-> r.ret,
              rejected |-> IF isWl
                           THEN overLimit(r.ret, wlLim)
                           ELSE overLimit(r.ret, lim)]

\* func silentReject(rw): two headers and rw.Write of the text "OK" with no
\* WriteHeader before it, so the response goes out with status 200.
silentReject == 200

\* The filter was returned by New and handles requests.
Serving == inst = "serving"

\* The management server was started by New.
Managed == inst = "serving" /\ config.Console

\* The guard that keeps the counters of the model finite: no entry counts
\* beyond MaxHits.
CountBelowMax(id) ==
    has(e.idxs, id) => e.hits[e.idxs[id]].hits < MaxHits

(***************************************************************************)
(* History variables.  They record what happened and steer nothing.        *)
(***************************************************************************)
NoHistory == [on |-> FALSE, ids |-> <<>>]

Range(q) == {q[i] : i \in 1..Len(q)}

\* firstHits after a request for tgID was served.
FirstHitsAfter(tgID) ==
    IF firstHits.on /\ tgID \notin Range(firstHits.ids) /\ tgID \notin blacklist
    THEN [firstHits EXCEPT !.ids = Append(@, tgID)]
    ELSE NoHistory

\* born after a request for tgID left the index as idxs; created tells
\* whether the request made a new entry for tgID.
BornAfter(tgID, created, idxs) ==
    LET kept(x) == has(idxs, x) /\ ~(created /\ x = tgID)
        rest    == SelectSeq(born, kept)
    IN  IF created /\ has(idxs, tgID) THEN Append(rest, tgID) ELSE rest

NoQuota == [on |-> FALSE, of |-> emptyMap]

\* quota after a request for tgID was served with the given verdict.  An id's
\* expire period starts with a hit that creates its entry while no period of
\* the id is running, and lasts expire seconds.  Only ids the regular limit
\* applies to are recorded, and only while a limit is set; the count stops
\* one above the limit.
QuotaAfter(tgID, created, rejected) ==
    IF ~quota.on \/ limit < 0 \/ tgID \in blacklist \/ tgID \in whitelist
    THEN quota
    ELSE LET running == /\ has(quota.of, tgID)
                        /\ now <= quota.of[tgID].since + expire
             n == IF rejected THEN 0 ELSE 1
         IN  IF running
             THEN [quota EXCEPT
                     !.of[tgID].n = IF @ > limit THEN @ ELSE @ + n]
             ELSE IF created
                  THEN [quota EXCEPT
                          !.of = mapPut(quota.of, tgID, [since |-> now, n |-> n])]
                  ELSE quota

\* quota after a management command: the record of accepted hits is given up.
QuotaAfterCommand == IF limit < 0 THEN quota ELSE NoQuota

(***************************************************************************)
(* The request handler.                                                    *)
(***************************************************************************)
\* ServeHTTP that tells a rejected sender it is throttled: status 429.
ServeHTTPTooMany(tgID) ==
    /\ Serving
    /\ CountBelowMax(tgID)
    /\ LET d == rejectedTgID(e, tgID, expire, now, blacklist, whitelist,
                             limit, wlLimit)
           created == ~has(e.idxs, tgID) \/ expired(e, e.idxs[tgID], now)
       IN  /\ e' = d.e
           /\ last' = [Outcome("ServeHTTP", tgID, d.hits, d.rejected, ~d.rejected)
                          EXCEPT !.status = IF d.rejected THEN 429 ELSE 0]
           /\ quota' = QuotaAfter(tgID, created, d.rejected)
           /\ born' = BornAfter(tgID, created /\ tgID \notin blacklist, d.e.idxs)
    /\ firstHits' = FirstHitsAfter(tgID)
    /\ UNCHANGED <<now, cfgVars, goVars>>

\* func (r *rateLimiter) ServeHTTP(rw, req), for a body carrying tgID.
ServeHTTP(tgID) ==
    /\ Serving
    /\ CountBelowMax(tgID)
    /\ LET d == rejectedTgID(e, tgID, expire, now, blacklist, whitelist,
                             limit, wlLimit)
           created == ~has(e.idxs, tgID) \/ expired(e, e.idxs[tgID], now)
       IN  /\ e' = d.e
           /\ last' = [Outcome("ServeHTTP", tgID, d.hits, d.rejected, ~d.rejected)
                          EXCEPT !.status = IF d.rejected THEN silentReject ELSE 0]
           /\ quota' = QuotaAfter(tgID, created, d.rejected)
           /\ born' = BornAfter(tgID, created /\ tgID \notin blacklist, d.e.idxs)
    /\ firstHits' = FirstHitsAfter(tgID)
    /\ UNCHANGED <<now, cfgVars, goVars>>

\* ServeHTTP that answers a body without an id as it answers a rejection.
ServeHTTPNoIDRejects ==
    /\ last' = [Outcome("ServeHTTP", NoID, 0, TRUE, FALSE) EXCEPT !.status = silentReject]
    /\ UNCHANGED <<e, now, cfgVars, goVars, firstHits, born, quota>>

\* ServeHTTP for a body extractTgID cannot get an id from: the request goes
\* to the next handler unfiltered.
ServeHTTPNoID ==
    /\ last' = Outcome("ServeHTTP", NoID, 0, FALSE, TRUE)
    /\ UNCHANGED <<e, now, cfgVars, goVars, firstHits, born, quota>>

\* The ids the bodies carry.
BodyIDs == {1, 2}

\* The request bodies: whether json.Unmarshal accepts the body, and the ids
\* at message.from.id and at callback_query.from.id (NoID for a nil pointer).
Bodies == [json : BOOLEAN, message : {NoID} \cup BodyIDs, cbq : {NoID} \cup BodyIDs]

\* func extractTgID(r io.Reader) (int64, error)
extractTgID(body) ==
    IF ~body.json THEN [id |-> NoID, err |-> TRUE]
    ELSE IF body.message # NoID THEN [id |-> body.message, err |-> FALSE]
    ELSE IF body.cbq # NoID THEN [id |-> body.cbq, err |-> FALSE]
    ELSE [id |-> NoID, err |-> TRUE]

\* func (r *rateLimiter) ServeHTTP(rw, req), from the body on.
ServeBody(body) ==
    IF extractTgID(body).err THEN ServeHTTPNoID ELSE ServeHTTP(extractTgID(body).id)

(***************************************************************************)
(* The management server, hit table commands.                              *)
(***************************************************************************)
\* GET /hits/<tg id>
HitsGet(id) ==
    /\ e' = getLeaves(e, id, now)
    /\ last' = [Outcome("get", id, get(e, id, now), FALSE, FALSE) EXCEPT !.status = 200]
    /\ quota' = QuotaAfterCommand
    /\ UNCHANGED <<now, cfgVars, goVars, firstHits, born>>

\* DELETE /hits/<tg id>
HitsReset(id) ==
    /\ LET r == reset(e, id)
       IN  /\ e' = r.e
           /\ last' = [Outcome("reset", id, 0, FALSE, FALSE)
                        EXCEPT !.found = r.ret, !.status = 204]
           /\ firstHits' = IF r.ret THEN NoHistory ELSE firstHits
    /\ quota' = QuotaAfterCommand
    /\ UNCHANGED <<now, cfgVars, goVars, born>>

\* GET /hits
HitsList ==
    /\ last' = [Outcome("list", NoID, 0, FALSE, FALSE) EXCEPT
                   !.all = list(e), !.status = 200]
    /\ quota' = QuotaAfterCommand
    /\ UNCHANGED <<e, now, cfgVars, goVars, firstHits, born>>

\* The wall clock advances by one second.
Tick ==
    /\ now < MaxTime
    /\ now' = now + 1
    /\ UNCHANGED <<e, cfgVars, goVars, last, firstHits, born, quota>>

(***************************************************************************)
(* Goroutines calling the store concurrently, statement by statement.      *)
(***************************************************************************)
Procs == 1..NProcs

\* The arguments and locals of a store call: the method, its id argument, the
\* slot found in the index, the count loaded from the slot and the value
\* returned; and, as history, the count id had when the call started (-1 with
\* no entry).
NoCall == [op |-> "none", id |-> NoID, idx |-> 0, tmp |-> 0, ret |-> 0, c0 |-> 0]

StoreOps == {"incNGet", "get", "reset", "list"}

\* The ids the goroutines call the store for: two ids that meet in the one
\* slot of the table.
SharedIDs == {1, 2}

\* The incNGet calls on id that have started and not yet counted.
pending(id) ==
    {p \in Procs : /\ call[p].op = "incNGet"
                   /\ call[p].id = id
                   /\ pc[p] \in {"Lock", "lookup", "load", "store"}}

\* rets after the index became idxs: the history of an id ends with its entry.
RetsOf(r, idxs) == [k \in (DOMAIN r) \cap (DOMAIN idxs) |-> r[k]]

\* A goroutine (a request handler or the management server) calls a store
\* method.  The guard keeps the counters within MaxHits.
Call(p, op, id) ==
    /\ pc[p] = "idle"
    /\ op = "incNGet" /\ has(e.idxs, id) =>
          e.hits[e.idxs[id]].hits + Cardinality(pending(id)) < MaxHits
    /\ pc' = [pc EXCEPT ![p] = "Lock"]
    /\ call' = [call EXCEPT ![p] =
                  [NoCall EXCEPT !.op = op, !.id = id,
                                 !.c0 = IF op = "incNGet" /\ has(e.idxs, id)
                                        THEN e.hits[e.idxs[id]].hits
                                        ELSE -1]]
    /\ UNCHANGED <<e, now, cfgVars, histVars, mu, rets>>

\* A Lock that does not wait for the mutex to be free.
LockNoWait(p) ==
    /\ pc[p] = "Lock"
    /\ mu' = p
    /\ pc' = [pc EXCEPT ![p] = IF call[p].op = "incNGet" THEN "lookup" ELSE "body"]
    /\ UNCHANGED <<e, now, cfgVars, histVars, call, rets>>

\* e.mu.Lock(), the first statement of incNGet, get, reset and list.
Lock(p) ==
    /\ pc[p] = "Lock"
    /\ mu = 0
    /\ mu' = p
    /\ pc' = [pc EXCEPT ![p] = IF call[p].op = "incNGet" THEN "lookup" ELSE "body"]
    /\ UNCHANGED <<e, now, cfgVars, histVars, call, rets>>

\* incNGet: idx, ok := e.idxs[id], then the branch for a missing record and
\* the branch for an expired one, which both insert and return 1.
Lookup(p) ==
    /\ pc[p] = "lookup"
    /\ LET id == call[p].id
       IN  IF ~has(e.idxs, id) \/ expired(e, e.idxs[id], now)
           THEN /\ e' = incNGet(e, id, expire, now).e
                /\ call' = [call EXCEPT ![p].ret = 1]
                /\ rets' = RetsOf(mapPut(rets, id, <<>>), e'.idxs)
                /\ pc' = [pc EXCEPT ![p] = "Unlock"]
           ELSE /\ call' = [call EXCEPT ![p].idx = e.idxs[id]]
                /\ pc' = [pc EXCEPT ![p] = "load"]
                /\ UNCHANGED <<e, rets>>
    /\ UNCHANGED <<now, cfgVars, histVars, mu>>

\* incNGet: e.hits[idx].hits++, the load.
IncLoad(p) ==
    /\ pc[p] = "load"
    /\ call' = [call EXCEPT ![p].tmp = e.hits[call[p].idx].hits]
    /\ pc' = [pc EXCEPT ![p] = "store"]
    /\ UNCHANGED <<e, now, cfgVars, histVars, mu, rets>>

\* incNGet: e.hits[idx].hits++, the store.
IncStore(p) ==
    /\ pc[p] = "store"
    /\ e' = [e EXCEPT !.hits[call[p].idx].hits = int32inc(call[p].tmp)]
    /\ pc' = [pc EXCEPT ![p] = "return"]
    /\ UNCHANGED <<now, cfgVars, histVars, mu, call, rets>>

\* incNGet: return e.hits[idx].hits
IncReturn(p) ==
    /\ pc[p] = "return"
    /\ call' = [call EXCEPT ![p].ret = e.hits[call[p].idx].hits]
    /\ pc' = [pc EXCEPT ![p] = "Unlock"]
    /\ UNCHANGED <<e, now, cfgVars, histVars, mu, rets>>

\* The body of get, reset and list, between Lock and the deferred Unlock.
Body(p) ==
    /\ pc[p] = "body"
    /\ e' = IF call[p].op = "reset" THEN reset(e, call[p].id).e
            ELSE IF call[p].op = "get" THEN getLeaves(e, call[p].id, now)
            ELSE e
    /\ call' = [call EXCEPT
                  ![p].ret = IF call[p].op = "get" THEN get(e, call[p].id, now)
                             ELSE 0]
    /\ rets' = IF call[p].op = "reset" /\ has(rets, call[p].id)
               THEN [rets EXCEPT ![call[p].id] = <<>>]
               ELSE rets
    /\ pc' = [pc EXCEPT ![p] = "Unlock"]
    /\ UNCHANGED <<now, cfgVars, histVars, mu>>

\* defer e.mu.Unlock(), and the return to the caller.
Unlock(p) ==
    /\ pc[p] = "Unlock"
    /\ mu' = 0
    /\ pc' = [pc EXCEPT ![p] = "idle"]
    /\ rets' = IF call[p].op = "incNGet" /\ has(rets, call[p].id)
               THEN [rets EXCEPT ![call[p].id] = Append(@, call[p].ret)]
               ELSE rets
    /\ call' = [call EXCEPT ![p] = NoCall]
    /\ UNCHANGED <<e, now, cfgVars, histVars>>

\* A step of goroutine p.
Go(p) ==
    \/ \E op \in StoreOps, id \in SharedIDs : Call(p, op, id)
    \/ Lock(p)
    \/ Lookup(p)
    \/ IncLoad(p)
    \/ IncStore(p)
    \/ IncReturn(p)
    \/ Body(p)
    \/ Unlock(p)

(***************************************************************************)
(* Specifications.                                                         *)
(***************************************************************************)
\* The goroutines net/http runs the handlers on.
Workers == {1, 2}

\* The lists the management commands name.
ListNames == {"wl", "bl"}

\* A goroutine that handles no request.
NoJob ==
    [at |-> "idle", op |-> "none", list |-> "none", id |-> NoID, v |-> 0,
     wl |-> {}, bl |-> {}, stale |-> FALSE, behind |-> FALSE, isWl |-> FALSE,
     mixed |-> FALSE, seen |-> FALSE, older |-> FALSE]

\* rwmu unlocked, no request in a handler, nothing added or removed yet.
InitHandlers ==
    /\ rwmu = [w |-> 0, r |-> {}]
    /\ job = [p \in Workers |-> NoJob]
    /\ added = [l \in ListNames |-> {}]
    /\ removed = [l \in ListNames |-> {}]

\* What every construction sets up, whatever the configuration.
InitCommon ==
    /\ now = 0
    /\ expire \in Expires
    /\ last = Outcome("none", NoID, 0, FALSE, FALSE)
    /\ firstHits = [on |-> TRUE, ids |-> <<>>]
    /\ born = <<>>
    /\ quota = [on |-> TRUE, of |-> emptyMap]
    /\ mu = 0
    /\ pc = [p \in Procs |-> "idle"]
    /\ call = [p \in Procs |-> NoCall]
    /\ rets = emptyMap
    /\ inst = "serving"
    /\ nilLists = FALSE
    /\ InitHandlers

\* func New(ctx, next, config, name) on CreateConfig()'s defaults (no limit,
\* no list source) and a positive table size.
Init ==
    /\ InitCommon
    /\ \E c \in HitTableSizes : e = newExpiryMap(c)
    /\ config = [CreateConfig(e.cap) EXCEPT !.Console = TRUE, !.ConsoleAddress = TRUE]
    /\ limit = -1
    /\ wlLimit = -1
    /\ whitelist = {}
    /\ blacklist = {}

\* func New on a configuration that sets limits and list sources, with the
\* smallest table, where ids displace one another the most.
InitLimiter ==
    /\ InitCommon
    /\ e = newExpiryMap(1)
    /\ config = [CreateConfig(1) EXCEPT !.Whitelist = TRUE, !.Blacklist = TRUE,
                                        !.Console = TRUE, !.ConsoleAddress = TRUE]
    /\ limit \in Limits
    /\ wlLimit \in Limits
    /\ whitelist \in SUBSET ListedIDs
    /\ blacklist \in SUBSET ListedIDs

\* The requests and commands for an id.
Ops(id) ==
    \/ ServeHTTP(id)
    \/ HitsGet(id)
    \/ HitsReset(id)

Next ==
    \/ \E id \in TgIDs : Ops(id)
    \/ ServeHTTPNoID
    \/ HitsList
    \/ Tick

\* Requests and commands may also carry the id the store uses as its mark of
\* a deleted slot.
NextAnyID ==
    \/ \E id \in AnyIDs : Ops(id)
    \/ ServeHTTPNoID
    \/ HitsList
    \/ Tick

Spec == Init /\ [][Next]_vars

\* Requests by their bodies, and the clock.
NextBody ==
    \/ \E body \in Bodies : ServeBody(body)
    \/ Tick

SpecBody == InitLimiter /\ [][NextBody]_vars

SpecLimiter == InitLimiter /\ [][Next]_vars

SpecAnyID == Init /\ [][NextAnyID]_vars

\* Goroutines share one store; the clock runs.
NextConc ==
    \/ \E p \in Procs : Go(p)
    \/ Tick

\* func New on CreateConfig()'s defaults with the smallest table, where the
\* calls of the goroutines meet in one slot.
InitConc ==
    /\ InitCommon
    /\ e = newExpiryMap(1)
    /\ config = CreateConfig(1)
    /\ limit = -1
    /\ wlLimit = -1
    /\ whitelist = {}
    /\ blacklist = {}

SpecConc == InitConc /\ [][NextConc]_vars

(***************************************************************************)
(* Construction, list reload and the single-id list commands, one at a     *)
(* time.                                                                   *)
(***************************************************************************)
\* The configurations: a table size, which list sources are set, whether the
\* console is on and whether it has an address.
Configs ==
    [HitTableSize : {0, 1}, Whitelist : BOOLEAN, WhitelistURL : BOOLEAN,
     Blacklist : BOOLEAN, BlacklistURL : BOOLEAN,
     Console : BOOLEAN, ConsoleAddress : BOOLEAN]

\* What readIDFile / readIDURL came to: an error, or the ids scanned.
FetchFailed == [ok |-> FALSE, ids |-> {}]
Fetches ==
    [Sources -> {FetchFailed} \cup {[ok |-> TRUE, ids |-> s] : s \in SUBSET ListedIDs}]

\* The outcomes of the reads updateLists makes: a source that is not
\* configured is not read.
ConfiguredFetches ==
    {f \in Fetches : \A s \in Sources : ~config[s] => f[s] = FetchFailed}

\* The sources in the order updateLists reads them.
SourceOrder == <<"Whitelist", "WhitelistURL", "Blacklist", "BlacklistURL">>

\* How many configured sources updateLists has read when it returns: those
\* before the first one that fails, or all of them.
readBefore(cfg, f) ==
    LET bad == {i \in DOMAIN SourceOrder :
                  cfg[SourceOrder[i]] /\ ~f[SourceOrder[i]].ok}
        stop == IF bad = {} THEN Len(SourceOrder) + 1
                ELSE CHOOSE i \in bad : \A j \in bad : i <= j
    IN  Cardinality({i \in DOMAIN SourceOrder : i < stop /\ cfg[SourceOrder[i]]})

\* The ids the configured sources of one list yield.
readIDs(cfg, f, ss) == UNION {f[s].ids : s \in {x \in ss : cfg[x]}}

\* A reload that puts the new whitelist in place as soon as the whitelist
\* sources are read, before the blacklist sources are.
updateListsPartial(cfg, f, wl0, bl0) ==
    LET failed(s) == cfg[s] /\ ~f[s].ok
        wl == readIDs(cfg, f, {"Whitelist", "WhitelistURL"})
        bl == readIDs(cfg, f, {"Blacklist", "BlacklistURL"})
        n == readBefore(cfg, f)
    IN  IF failed("Whitelist") \/ failed("WhitelistURL")
        THEN [err |-> TRUE, read |-> n, whitelist |-> wl0, blacklist |-> bl0]
        ELSE IF failed("Blacklist") \/ failed("BlacklistURL")
        THEN [err |-> TRUE, read |-> n, whitelist |-> wl, blacklist |-> bl0]
        ELSE [err |-> FALSE, read |-> n, whitelist |-> wl, blacklist |-> bl]

\* func (r *rateLimiter) updateLists() error: fills the local maps wl and bl
\* from the configured sources, returns at the first error, and assigns
\* r.whitelist and r.blacklist only after the last source is read.
updateLists(cfg, f, wl0, bl0) ==
    LET failed(s) == cfg[s] /\ ~f[s].ok
    IN  IF \E s \in Sources : failed(s)
        THEN [err |-> TRUE, read |-> readBefore(cfg, f),
              whitelist |-> wl0, blacklist |-> bl0]
        ELSE [err |-> FALSE, read |-> readBefore(cfg, f),
              whitelist |-> readIDs(cfg, f, {"Whitelist", "WhitelistURL"}),
              blacklist |-> readIDs(cfg, f, {"Blacklist", "BlacklistURL"})]

\* func New: the size test, the rateLimiter, r.updateLists() with its error
\* dropped, then the console; *config.ConsoleAddress panics on a nil pointer.
New(f, listenOK) ==
    /\ inst = "none"
    /\ IF config.HitTableSize <= 0
       THEN /\ inst' = "failed"
            /\ last' = [Outcome("New", NoID, 0, FALSE, FALSE) EXCEPT !.err = TRUE]
            /\ UNCHANGED <<e, whitelist, blacklist, nilLists>>
       ELSE LET u == updateLists(config, f, whitelist, blacklist)
                started == config.Console /\ config.ConsoleAddress /\ listenOK
            IN  /\ e' = newExpiryMap(config.HitTableSize)
                /\ whitelist' = u.whitelist
                /\ blacklist' = u.blacklist
                /\ nilLists' = u.err
                /\ inst' = IF ~config.Console \/ started THEN "serving"
                           ELSE IF ~config.ConsoleAddress THEN "panicked"
                           ELSE "failed"
                /\ last' = [Outcome("New", NoID, 0, FALSE, FALSE) EXCEPT
                               !.err = config.Console /\ config.ConsoleAddress
                                       /\ ~listenOK]
    /\ UNCHANGED <<now, expire, limit, wlLimit, config, admVars, goVars, firstHits, born,
                   quota>>

\* case n == 1 && p[0] == "reload" && req.Method == http.MethodPost
Reload(f) ==
    /\ Managed
    /\ LET u == updateLists(config, f, whitelist, blacklist)
       IN  /\ whitelist' = u.whitelist
           /\ blacklist' = u.blacklist
           /\ nilLists' = (nilLists /\ u.err)
           /\ last' = [Outcome("reload", NoID, u.read, FALSE, FALSE) EXCEPT
                          !.status = 204, !.err = u.err]
    /\ UNCHANGED <<e, now, expire, limit, wlLimit, config, inst, admVars, goVars,
                   firstHits, born, quota>>

\* case "bl": m = r.blacklist / case "wl": m = r.whitelist
listOf(l) == IF l = "bl" THEN blacklist ELSE whitelist

\* case n == 3 && p[0] == "list", http.MethodGet: _, ok := m[id]
ListGet(l, id) ==
    /\ Managed
    /\ last' = [Outcome("contains", id, 0, FALSE, FALSE) EXCEPT
                   !.list = l, !.found = id \in listOf(l), !.status = 200]
    /\ UNCHANGED <<e, now, cfgVars, goVars, firstHits, born, quota>>

\* case n == 3 && p[0] == "list", http.MethodPut: m[id] = struct{}{} and 201;
\* the assignment panics while m is the nil map, and no status is written.
ListPut(l, id) ==
    /\ Managed
    /\ IF nilLists
       THEN /\ last' = [Outcome("add", id, 0, FALSE, FALSE) EXCEPT
                          !.list = l, !.err = TRUE]
            /\ UNCHANGED <<whitelist, blacklist>>
       ELSE /\ last' = [Outcome("add", id, 0, FALSE, FALSE) EXCEPT
                          !.list = l, !.status = 201]
            /\ whitelist' = IF l = "wl" THEN whitelist \cup {id} ELSE whitelist
            /\ blacklist' = IF l = "bl" THEN blacklist \cup {id} ELSE blacklist
    /\ UNCHANGED <<e, now, expire, limit, wlLimit, config, inst, nilLists, admVars,
                   goVars, firstHits, born, quota>>

\* case n == 3 && p[0] == "list", http.MethodDelete: delete(m, id) and 204.
ListDelete(l, id) ==
    /\ Managed
    /\ last' = [Outcome("remove", id, 0, FALSE, FALSE) EXCEPT
                   !.list = l, !.status = 204]
    /\ whitelist' = IF l = "wl" THEN whitelist \ {id} ELSE whitelist
    /\ blacklist' = IF l = "bl" THEN blacklist \ {id} ELSE blacklist
    /\ UNCHANGED <<e, now, expire, limit, wlLimit, config, inst, nilLists, admVars,
                   goVars, firstHits, born, quota>>

\* The process before New is called: no rateLimiter yet, its fields at their
\* zero values, and one of the configurations the operator can write.
InitReload ==
    /\ now = 0
    /\ expire \in Expires
    /\ last = Outcome("none", NoID, 0, FALSE, FALSE)
    /\ firstHits = [on |-> TRUE, ids |-> <<>>]
    /\ born = <<>>
    /\ quota = [on |-> TRUE, of |-> emptyMap]
    /\ mu = 0
    /\ pc = [p \in Procs |-> "idle"]
    /\ call = [p \in Procs |-> NoCall]
    /\ rets = emptyMap
    /\ inst = "none"
    /\ nilLists = TRUE
    /\ InitHandlers
    /\ e = newExpiryMap(0)
    /\ limit = -1
    /\ wlLimit = -1
    /\ whitelist = {}
    /\ blacklist = {}
    /\ config \in Configs

\* Construction, then requests, reloads and list commands for the shared ids.
NextReload ==
    \/ \E f \in ConfiguredFetches, listenOK \in BOOLEAN : New(f, listenOK)
    \/ \E id \in SharedIDs : ServeHTTP(id)
    \/ \E f \in ConfiguredFetches : Reload(f)
    \/ \E l \in ListNames, id \in SharedIDs :
          ListGet(l, id) \/ ListPut(l, id) \/ ListDelete(l, id)

SpecReload == InitReload /\ [][NextReload]_vars

(***************************************************************************)
(* The management server as a whole: serveManagement from the request to   *)
(* the handler it picks and the status it writes.                          *)
(***************************************************************************)
\* A limit command that starts the counting afresh.
LimitPutResets(which, v) ==
    /\ Managed
    /\ limit' = IF which = "limit" THEN v ELSE limit
    /\ wlLimit' = IF which = "wllimit" THEN v ELSE wlLimit
    /\ e' = newExpiryMap(e.cap)
    /\ last' = [Outcome("set" \o which, NoID, v, FALSE, FALSE) EXCEPT !.status = 204]
    /\ UNCHANGED <<now, expire, whitelist, blacklist, config, inst, nilLists,
                   admVars, goVars, firstHits, born, quota>>

\* PUT /limit and PUT /wllimit, once the body has parsed to v.
LimitPut(which, v) ==
    /\ Managed
    /\ limit' = IF which = "limit" THEN v ELSE limit
    /\ wlLimit' = IF which = "wllimit" THEN v ELSE wlLimit
    /\ last' = [Outcome("set" \o which, NoID, v, FALSE, FALSE) EXCEPT !.status = 204]
    /\ UNCHANGED <<e, now, expire, whitelist, blacklist, config, inst, nilLists,
                   admVars, goVars, firstHits, born, quota>>

\* GET /limit and GET /wllimit.
LimitGet(which) ==
    /\ Managed
    /\ last' = [Outcome("get" \o which, NoID,
                        IF which = "limit" THEN limit ELSE wlLimit, FALSE, FALSE)
                   EXCEPT !.status = 200]
    /\ UNCHANGED <<e, now, cfgVars, goVars, firstHits, born, quota>>

\* The request lines: the shape of req.URL.Path and req.Method.
Paths == {"reload", "hits", "hits/id", "list/l/id", "limit", "wllimit", "other"}
Methods == {"GET", "PUT", "POST", "DELETE"}

\* What the path and the body carry: the id segment as parseTgID reads it
\* (NoID when it does not parse), the list segment, and the body of a limit
\* command as strconv.ParseInt reads it.
NoBody == [ok |-> FALSE, v |-> 0]
SetLimits == {-1, 1}
LimitBodies == {NoBody} \cup {[ok |-> TRUE, v |-> v] : v \in SetLimits}
Requests ==
    {[path |-> p, method |-> m, id |-> NoID, list |-> "none", body |-> NoBody] :
        p \in {"reload", "hits", "other"}, m \in Methods}
    \cup {[path |-> "hits/id", method |-> m, id |-> id, list |-> "none", body |-> NoBody] :
        m \in Methods, id \in {NoID} \cup ListedIDs}
    \cup {[path |-> "list/l/id", method |-> m, id |-> id, list |-> l, body |-> NoBody] :
        m \in Methods, id \in {NoID} \cup ListedIDs, l \in ListNames \cup {"zz"}}
    \cup {[path |-> p, method |-> m, id |-> NoID, list |-> "none", body |-> b] :
        p \in {"limit", "wllimit"}, m \in Methods, b \in LimitBodies}

\* The switch of serveManagement, case by case in its order: the handler
\* reached, or the status written where none is.
route(req) ==
    CASE req.path = "reload" /\ req.method = "POST" -> "reload"
      [] req.path = "hits" /\ req.method = "GET" -> "list"
      [] req.path = "hits/id" ->
            IF req.id = NoID THEN "400"
            ELSE IF req.method = "GET" THEN "get"
            ELSE IF req.method = "DELETE" THEN "reset"
            ELSE "200"
      [] req.path = "list/l/id" ->
            IF req.id = NoID THEN "400"
            ELSE IF req.list \notin ListNames THEN "400"
            ELSE IF req.method = "GET" THEN "contains"
            ELSE IF req.method = "DELETE" THEN "remove"
            ELSE IF req.method = "PUT" THEN "add"
            ELSE "405"
      [] req.path \in {"limit", "wllimit"} ->
            IF req.method = "PUT"
            THEN IF req.body.ok THEN "set" ELSE "400"
            ELSE IF req.method = "GET" THEN "get" \o req.path
            ELSE "405"
      [] OTHER -> "404"

\* The status of an answer that comes with no handler: http.Error with 400
\* or 405, http.NotFound, or nothing written at all, which net/http sends as
\* an empty 200.
statusOf(r) ==
    CASE r = "400" -> 400
      [] r = "404" -> 404
      [] r = "405" -> 405
      [] OTHER -> 200

\* An answer without a handler that empties the hit table on its way.
AnswerResets(req) ==
    /\ Managed
    /\ last' = [Outcome("answer", req.id, 0, FALSE, FALSE) EXCEPT
                   !.status = statusOf(route(req)),
                   !.err = statusOf(route(req)) >= 400]
    /\ e' = newExpiryMap(e.cap)
    /\ UNCHANGED <<now, cfgVars, goVars, firstHits, born, quota>>

\* serveManagement answers without reaching a handler.
Answer(req) ==
    /\ Managed
    /\ last' = [Outcome("answer", req.id, 0, FALSE, FALSE) EXCEPT
                   !.status = statusOf(route(req)),
                   !.err = statusOf(route(req)) >= 400]
    /\ UNCHANGED <<e, now, cfgVars, goVars, firstHits, born, quota>>

\* func (r *rateLimiter) serveManagement(res, req)
serveManagement(req) ==
    LET r == route(req)
    IN  CASE r = "reload" -> \E f \in ConfiguredFetches : Reload(f)
          [] r = "list" -> HitsList
          [] r = "get" -> HitsGet(req.id)
          [] r = "reset" -> HitsReset(req.id)
          [] r = "contains" -> ListGet(req.list, req.id)
          [] r = "remove" -> ListDelete(req.list, req.id)
          [] r = "add" -> ListPut(req.list, req.id)
          [] r = "set" -> LimitPut(req.path, req.body.v)
          [] r \in {"getlimit", "getwllimit"} -> LimitGet(req.path)
          [] OTHER -> Answer(req)

\* The console is on, one list file each is read, and no limit is set yet.
InitManage ==
    /\ InitCommon
    /\ e = newExpiryMap(1)
    /\ config = [CreateConfig(1) EXCEPT !.Whitelist = TRUE, !.Blacklist = TRUE,
                                        !.Console = TRUE, !.ConsoleAddress = TRUE]
    /\ limit = -1
    /\ wlLimit = -1
    /\ whitelist \in SUBSET ListedIDs
    /\ blacklist = {}

\* Management requests and filtered requests.
NextManage ==
    \/ \E req \in Requests : serveManagement(req)
    \/ \E id \in ListedIDs : ServeHTTP(id)

SpecManage == InitManage /\ [][NextManage]_vars

(***************************************************************************)
(* Requests and management commands on concurrent goroutines, under        *)
(* rateLimiter.rwmu.  A handler is a sequence of steps; the steps of        *)
(* different goroutines interleave.                                        *)
(***************************************************************************)
\* r.rwmu.Lock() goes through whatever the lock is held by.
canLockAnyway == TRUE

\* r.rwmu.Lock() returns: no goroutine holds the lock, shared or exclusive.
canLock == rwmu.w = 0 /\ rwmu.r = {}

\* r.rwmu.RLock() returns: no goroutine holds the lock exclusively and none
\* has announced itself inside r.rwmu.Lock() and waits for the readers to
\* leave (sync.RWMutex keeps new readers out for a waiting writer).
canRLock == rwmu.w = 0 /\ \A q \in Workers : job[q].at # "locking"

\* An updateLists call is reading its sources.
fetching == \E q \in Workers : job[q].op = "reload" /\ job[q].at = "fetch"

\* What a completed read of the sources, with the lists wl and bl, does to
\* the history of the other handlers: a reload that read its sources earlier
\* and has not assigned them yet holds older contents if they differ.
afterFetch(p, wl, bl) ==
    [q \in Workers |->
        IF q # p /\ job[q].op = "reload"
                 /\ job[q].at \in {"lock", "locking", "setWl", "setBl"}
        THEN [job[q] EXCEPT !.older = (job[q].wl # wl \/ job[q].bl # bl)]
        ELSE job[q]]

\* An updateLists call has assigned r.whitelist and not yet r.blacklist.
midSwap == \E q \in Workers : job[q].op = "reload" /\ job[q].at = "setBl"

\* What an assignment to r.whitelist or r.blacklist does to the locals of the
\* other handlers: the map a /list handler took from that field is no longer
\* the live one, and a decision that has read the blacklist and not yet the
\* whitelist is behind once the whitelist is replaced.
afterSwap(l) ==
    [q \in Workers |->
        IF job[q].at = "write" /\ job[q].list = l
        THEN [job[q] EXCEPT !.stale = TRUE]
        ELSE IF l = "wl" /\ job[q].op = "decide" /\ job[q].at = "readWl"
        THEN [job[q] EXCEPT !.behind = TRUE]
        ELSE job[q]]

\* ServeHTTP is entered with a body that carries tgID: rejectedTgID is called.
StartDecide(p, tgID) ==
    /\ Serving
    /\ job[p].at = "idle"
    /\ job' = [job EXCEPT ![p] = [NoJob EXCEPT !.at = "rlock", !.op = "decide",
                                              !.id = tgID, !.seen = fetching]]
    /\ UNCHANGED <<e, now, expire, limit, wlLimit, whitelist, blacklist, config,
                   inst, nilLists, rwmu, added, removed, goVars, histVars>>

\* r.rwmu.RLock() in rejectedTgID.
DecideRLock(p) ==
    /\ Serving
    /\ job[p].at = "rlock"
    /\ canRLock
    /\ rwmu' = [rwmu EXCEPT !.r = @ \cup {p}]
    /\ job' = [job EXCEPT ![p].at = "readBl"]
    /\ UNCHANGED <<e, now, expire, limit, wlLimit, whitelist, blacklist, config,
                   inst, nilLists, added, removed, goVars, histVars>>

\* if _, ok := r.blacklist[tgID]; ok { return true }, with the deferred
\* RUnlock; else on to the whitelist.
DecideReadBl(p) ==
    /\ Serving
    /\ job[p].at = "readBl"
    /\ IF job[p].id \in blacklist
       THEN /\ job' = [job EXCEPT ![p] = NoJob]
            /\ rwmu' = [rwmu EXCEPT !.r = @ \ {p}]
       ELSE /\ job' = [job EXCEPT ![p].at = "readWl", ![p].behind = midSwap]
            /\ UNCHANGED rwmu
    /\ UNCHANGED <<e, now, expire, limit, wlLimit, whitelist, blacklist, config,
                   inst, nilLists, added, removed, goVars, histVars>>

\* _, isWl := r.whitelist[tgID]
DecideReadWl(p) ==
    /\ Serving
    /\ job[p].at = "readWl"
    /\ job' = [job EXCEPT ![p].at = "count",
                          ![p].isWl = job[p].id \in whitelist,
                          ![p].mixed = job[p].behind \/ midSwap]
    /\ UNCHANGED <<e, now, expire, limit, wlLimit, whitelist, blacklist, config,
                   inst, nilLists, rwmu, added, removed, goVars, histVars>>

\* hits := r.hits.incNGet(tgID, r.expire), the two limit tests and the
\* deferred RUnlock.
DecideCount(p) ==
    /\ Serving
    /\ job[p].at = "count"
    /\ CountBelowMax(job[p].id)
    /\ LET d == rejectedTgID(e, job[p].id, expire, now, {},
                             IF job[p].isWl THEN {job[p].id} ELSE {},
                             limit, wlLimit)
       IN  e' = d.e
    /\ job' = [job EXCEPT ![p] = NoJob]
    /\ rwmu' = [rwmu EXCEPT !.r = @ \ {p}]
    /\ UNCHANGED <<now, expire, limit, wlLimit, whitelist, blacklist, config,
                   inst, nilLists, added, removed, goVars, histVars>>

\* POST /reload: r.updateLists() reads the sources into its local maps,
\* holding no lock; if one fails it returns and the handler answers 204.
StartReload(p, f) ==
    /\ Managed
    /\ job[p].at = "idle"
    /\ LET u == updateLists(config, f, whitelist, blacklist)
       IN  IF u.err
           THEN UNCHANGED job
           ELSE job' = [afterFetch(p, u.whitelist, u.blacklist) EXCEPT
                           ![p] = [NoJob EXCEPT !.at = "lock",
                                         !.op = "reload", !.wl = u.whitelist,
                                         !.bl = u.blacklist]]
    /\ added' = [l \in ListNames |-> {}]
    /\ removed' = [l \in ListNames |-> {}]
    /\ UNCHANGED <<e, now, expire, limit, wlLimit, whitelist, blacklist, config,
                   inst, nilLists, rwmu, goVars, histVars>>

\* PUT /limit or /wllimit with a body that parses to v.
StartLimit(p, which, v) ==
    /\ Managed
    /\ job[p].at = "idle"
    /\ job' = [job EXCEPT ![p] = [NoJob EXCEPT !.at = "lock", !.op = which, !.v = v]]
    /\ UNCHANGED <<e, now, expire, limit, wlLimit, whitelist, blacklist, config,
                   inst, nilLists, rwmu, added, removed, goVars, histVars>>

\* r.rwmu.Lock() in updateLists and in the PUT /limit, /wllimit handler.
AdminLock(p) ==
    /\ Managed
    /\ job[p].at = "lock"
    /\ canLock
    /\ rwmu' = [rwmu EXCEPT !.w = p]
    /\ job' = [job EXCEPT ![p].at = IF job[p].op = "reload" THEN "setWl" ELSE "set"]
    /\ UNCHANGED <<e, now, expire, limit, wlLimit, whitelist, blacklist, config,
                   inst, nilLists, added, removed, goVars, histVars>>

\* r.whitelist = wl
ReloadSetWl(p) ==
    /\ Managed
    /\ job[p].at = "setWl"
    /\ whitelist' = job[p].wl
    /\ job' = [afterSwap("wl") EXCEPT ![p].at = "setBl"]
    /\ added' = [added EXCEPT !["wl"] = {}]
    /\ removed' = [removed EXCEPT !["wl"] = {}]
    /\ UNCHANGED <<e, now, expire, limit, wlLimit, blacklist, config, inst,
                   nilLists, rwmu, goVars, histVars>>

\* r.blacklist = bl and the deferred Unlock.
ReloadSetBl(p) ==
    /\ Managed
    /\ job[p].at = "setBl"
    /\ blacklist' = job[p].bl
    /\ job' = [afterSwap("bl") EXCEPT ![p] = NoJob]
    /\ rwmu' = [rwmu EXCEPT !.w = IF @ = p THEN 0 ELSE @]
    /\ added' = [added EXCEPT !["bl"] = {}]
    /\ removed' = [removed EXCEPT !["bl"] = {}]
    /\ UNCHANGED <<e, now, expire, limit, wlLimit, whitelist, config, inst,
                   nilLists, goVars, histVars>>

\* r.limit = int32(limit) or r.wlLimit = int32(limit) and the deferred Unlock.
LimitSet(p) ==
    /\ Managed
    /\ job[p].at = "set"
    /\ limit' = IF job[p].op = "limit" THEN job[p].v ELSE limit
    /\ wlLimit' = IF job[p].op = "wllimit" THEN job[p].v ELSE wlLimit
    /\ job' = [job EXCEPT ![p] = NoJob]
    /\ rwmu' = [rwmu EXCEPT !.w = IF @ = p THEN 0 ELSE @]
    /\ UNCHANGED <<e, now, expire, whitelist, blacklist, config, inst, nilLists,
                   added, removed, goVars, histVars>>

\* PUT or DELETE /list/(wl|bl)/<id>: m = r.blacklist or m = r.whitelist, read
\* with no lock held.  m is the live map until the field is assigned again.
StartEdit(p, op, l, id) ==
    /\ Managed
    /\ job[p].at = "idle"
    /\ job' = [job EXCEPT ![p] = [NoJob EXCEPT !.at = "write", !.op = op,
                                              !.list = l, !.id = id]]
    /\ added' = IF op = "remove" THEN [added EXCEPT ![l] = @ \ {id}] ELSE added
    /\ removed' = IF op = "add" THEN [removed EXCEPT ![l] = @ \ {id}] ELSE removed
    /\ UNCHANGED <<e, now, expire, limit, wlLimit, whitelist, blacklist, config,
                   inst, nilLists, rwmu, goVars, histVars>>

\* m[id] = struct{}{} and 201, or delete(m, id) and 204, with no lock held.
\* The write changes the list only if m is still the live map; added and
\* removed record what the handler answered.
EditWrite(p) ==
    /\ Managed
    /\ job[p].at = "write"
    /\ LET l == job[p].list
           id == job[p].id
           m == listOf(l)
           w == IF job[p].stale THEN m
                ELSE IF job[p].op = "add" THEN m \cup {id} ELSE m \ {id}
       IN  /\ whitelist' = IF l = "wl" THEN w ELSE whitelist
           /\ blacklist' = IF l = "bl" THEN w ELSE blacklist
           /\ added' = [added EXCEPT ![l] = IF job[p].op = "add"
                                            THEN @ \cup {id} ELSE @ \ {id}]
           /\ removed' = [removed EXCEPT ![l] = IF job[p].op = "remove"
                                                THEN @ \cup {id} ELSE @ \ {id}]
    /\ job' = [job EXCEPT ![p] = NoJob]
    /\ UNCHANGED <<e, now, expire, limit, wlLimit, config, inst, nilLists, rwmu,
                   goVars, histVars>>

\* Two goroutines are in the live map of a list at once and one of them
\* writes it: a /list write with a decision's lookup or with another /list
\* write.
mapRace ==
    \E p, q \in Workers :
        /\ p # q
        /\ job[p].at = "write" /\ ~job[p].stale
        /\ \/ job[q].at = "write" /\ ~job[q].stale /\ job[q].list = job[p].list
           \/ job[q].at = "readBl" /\ job[p].list = "bl"
           \/ job[q].at = "readWl" /\ job[p].list = "wl"

\* The Go runtime meets the unsynchronised map access and throws "concurrent
\* map read and map write" (or "concurrent map writes"): the process exits.
Throw ==
    /\ Serving
    /\ mapRace
    /\ inst' = "crashed"
    /\ UNCHANGED <<e, now, expire, limit, wlLimit, whitelist, blacklist, config,
                   nilLists, admVars, goVars, histVars>>

\* The values a PUT /limit or /wllimit carries.
PutLimits == {-1, 0}

\* One step of one handler goroutine.
Handle(p) ==
    \/ \E id \in ListedIDs : StartDecide(p, id)
    \/ DecideRLock(p)
    \/ DecideReadBl(p)
    \/ DecideReadWl(p)
    \/ DecideCount(p)
    \/ \E f \in ConfiguredFetches : StartReload(p, f)
    \/ \E which \in {"limit", "wllimit"}, v \in PutLimits : StartLimit(p, which, v)
    \/ AdminLock(p)
    \/ ReloadSetWl(p)
    \/ ReloadSetBl(p)
    \/ LimitSet(p)
    \/ \E op \in {"add", "remove"}, l \in ListNames, id \in ListedIDs :
          StartEdit(p, op, l, id)
    \/ EditWrite(p)

NextAdmin ==
    \/ \E p \in Workers : Handle(p)
    \/ Throw

\* func New on a configuration with a whitelist file, a blacklist file and
\* the console, both files read.
InitAdmin ==
    /\ InitCommon
    /\ e = newExpiryMap(1)
    /\ config = [CreateConfig(1) EXCEPT !.Whitelist = TRUE, !.Blacklist = TRUE,
                                        !.Console = TRUE, !.ConsoleAddress = TRUE]
    /\ limit = -1
    /\ wlLimit = -1
    /\ whitelist \in SUBSET ListedIDs
    /\ blacklist \in SUBSET ListedIDs

SpecAdmin == InitAdmin /\ [][NextAdmin]_vars

(***************************************************************************)
(* The handlers with both locks: rateLimiter.rwmu and, inside the store     *)
(* calls, expiryMap.mu.  updateLists has its fetch phase, r.rwmu.Lock() its *)
(* two halves, and every store call waits for e.mu.                        *)
(***************************************************************************)
\* What no step of a handler with the locks changes besides the lists, the
\* limits and the history of the /list commands.
lockFrame == <<now, expire, config, inst, nilLists, pc, call, rets, histVars>>

\* The decisions for tgID that have not counted their hit yet.
uncounted(tgID) ==
    {q \in Workers : job[q].op = "decide" /\ job[q].id = tgID
                     /\ job[q].at \in {"rlock", "readBl", "readWl", "count", "incr"}}

\* ServeHTTP is entered with a body that carries tgID.  The guard keeps the
\* counters within MaxHits.
ServeStart(p, tgID) ==
    /\ has(e.idxs, tgID) =>
          e.hits[e.idxs[tgID]].hits + Cardinality(uncounted(tgID)) < MaxHits
    /\ StartDecide(p, tgID)

\* e.mu.Lock() in incNGet, called by rejectedTgID under the shared lock.
DecideMuLock(p) ==
    /\ Serving
    /\ job[p].op = "decide" /\ job[p].at = "count"
    /\ mu = 0
    /\ mu' = p
    /\ job' = [job EXCEPT ![p].at = "incr"]
    /\ UNCHANGED <<e, rwmu, limit, wlLimit, whitelist, blacklist, added, removed,
                   lockFrame>>

\* The body of incNGet and its deferred e.mu.Unlock().
DecideIncr(p) ==
    /\ Serving
    /\ job[p].at = "incr"
    /\ LET d == incNGet(e, job[p].id, expire, now)
       IN  /\ e' = d.e
           /\ job' = [job EXCEPT ![p].at = "test", ![p].v = d.ret]
    /\ mu' = 0
    /\ UNCHANGED <<rwmu, limit, wlLimit, whitelist, blacklist, added, removed,
                   lockFrame>>

\* The two limit tests of rejectedTgID, its return and the deferred RUnlock.
\* A reload that is reading its sources has now seen a decision start and
\* finish.
DecideReturn(p) ==
    /\ Serving
    /\ job[p].at = "test"
    /\ rwmu' = [rwmu EXCEPT !.r = @ \ {p}]
    /\ job' = [q \in Workers |->
                 IF q = p THEN NoJob
                 ELSE IF job[p].seen /\ job[q].op = "reload" /\ job[q].at = "fetch"
                 THEN [job[q] EXCEPT !.seen = TRUE]
                 ELSE job[q]]
    /\ UNCHANGED <<e, mu, limit, wlLimit, whitelist, blacklist, added, removed,
                   lockFrame>>

\* The store commands of the console.
HitsOps == {"list", "get", "reset"}

\* GET /hits, GET /hits/<id> or DELETE /hits/<id>: the handler calls
\* r.hits.list(), r.hits.get(id) or r.hits.reset(id).
StartHits(p, op, id) ==
    /\ Managed
    /\ job[p].at = "idle"
    /\ job' = [job EXCEPT ![p] = [NoJob EXCEPT !.at = "mulock", !.op = op,
                                              !.id = id]]
    /\ UNCHANGED <<e, mu, rwmu, limit, wlLimit, whitelist, blacklist, added,
                   removed, lockFrame>>

\* e.mu.Lock() in list, get and reset.
HitsMuLock(p) ==
    /\ Managed
    /\ job[p].at = "mulock"
    /\ mu = 0
    /\ mu' = p
    /\ job' = [job EXCEPT ![p].at = "body"]
    /\ UNCHANGED <<e, rwmu, limit, wlLimit, whitelist, blacklist, added, removed,
                   lockFrame>>

\* The body of list, get or reset, the deferred e.mu.Unlock() and the answer.
HitsBody(p) ==
    /\ Managed
    /\ job[p].at = "body"
    /\ e' = IF job[p].op = "reset" THEN reset(e, job[p].id).e ELSE e
    /\ mu' = 0
    /\ job' = [job EXCEPT ![p] = NoJob]
    /\ UNCHANGED <<rwmu, limit, wlLimit, whitelist, blacklist, added, removed,
                   lockFrame>>

\* GET /limit or GET /wllimit.
StartLimitGet(p, which) ==
    /\ Managed
    /\ job[p].at = "idle"
    /\ job' = [job EXCEPT ![p] = [NoJob EXCEPT !.at = "rlockGet",
                                              !.op = "get" \o which]]
    /\ UNCHANGED <<e, mu, rwmu, limit, wlLimit, whitelist, blacklist, added,
                   removed, lockFrame>>

\* r.rwmu.RLock() in the GET /limit, /wllimit handler.
LimitGetRLock(p) ==
    /\ Managed
    /\ job[p].at = "rlockGet"
    /\ canRLock
    /\ rwmu' = [rwmu EXCEPT !.r = @ \cup {p}]
    /\ job' = [job EXCEPT ![p].at = "readLimit"]
    /\ UNCHANGED <<e, mu, limit, wlLimit, whitelist, blacklist, added, removed,
                   lockFrame>>

\* The read of r.limit or r.wlLimit, the answer and the deferred RUnlock.
LimitGetRead(p) ==
    /\ Managed
    /\ job[p].at = "readLimit"
    /\ rwmu' = [rwmu EXCEPT !.r = @ \ {p}]
    /\ job' = [job EXCEPT ![p] = NoJob]
    /\ UNCHANGED <<e, mu, limit, wlLimit, whitelist, blacklist, added, removed,
                   lockFrame>>

\* GET /list/(wl|bl)/<id>: m = r.blacklist or m = r.whitelist.
StartListGet(p, l, id) ==
    /\ Managed
    /\ job[p].at = "idle"
    /\ job' = [job EXCEPT ![p] = [NoJob EXCEPT !.at = "read", !.op = "contains",
                                              !.list = l, !.id = id]]
    /\ UNCHANGED <<e, mu, rwmu, limit, wlLimit, whitelist, blacklist, added,
                   removed, lockFrame>>

\* _, ok := m[id] and the answer, with no lock held.
ListRead(p) ==
    /\ Managed
    /\ job[p].at = "read"
    /\ job' = [job EXCEPT ![p] = NoJob]
    /\ UNCHANGED <<e, mu, rwmu, limit, wlLimit, whitelist, blacklist, added,
                   removed, lockFrame>>

\* An updateLists that takes r.rwmu.Lock() before it reads its sources.
StartFetchLocked(p) ==
    /\ Managed
    /\ job[p].at = "idle"
    /\ canLock
    /\ rwmu' = [rwmu EXCEPT !.w = p]
    /\ job' = [job EXCEPT ![p] = [NoJob EXCEPT !.at = "fetch", !.op = "reload"]]
    /\ added' = [l \in ListNames |-> {}]
    /\ removed' = [l \in ListNames |-> {}]
    /\ UNCHANGED <<e, mu, limit, wlLimit, whitelist, blacklist, lockFrame>>

\* POST /reload: r.updateLists() is entered and starts to read its sources
\* into its local maps wl and bl.
StartFetch(p) ==
    /\ Managed
    /\ job[p].at = "idle"
    /\ job' = [job EXCEPT ![p] = [NoJob EXCEPT !.at = "fetch", !.op = "reload"]]
    /\ added' = [l \in ListNames |-> {}]
    /\ removed' = [l \in ListNames |-> {}]
    /\ UNCHANGED <<e, mu, rwmu, limit, wlLimit, whitelist, blacklist, lockFrame>>

\* The sources have been read, with the results f: on an error updateLists
\* returns and the handler answers 204, else it goes on to r.rwmu.Lock().
\* No decision that started during this fetch phase finishes during it any
\* more.
FetchDone(p, f) ==
    /\ Managed
    /\ job[p].op = "reload" /\ job[p].at = "fetch"
    /\ LET u == updateLists(config, f, whitelist, blacklist)
       IN  job' = [q \in Workers |->
                     IF q # p
                     THEN [(IF u.err THEN job
                            ELSE afterFetch(p, u.whitelist, u.blacklist))[q]
                              EXCEPT !.seen = FALSE]
                     ELSE IF u.err THEN NoJob
                     ELSE [NoJob EXCEPT !.at = "lock", !.op = "reload",
                                        !.wl = u.whitelist, !.bl = u.blacklist]]
    /\ UNCHANGED <<e, mu, rwmu, limit, wlLimit, whitelist, blacklist, added,
                   removed, lockFrame>>

\* r.rwmu.Lock(), first half: the writer gets the lock's writer mutex and
\* announces itself; from now on no new reader enters.
AdminAnnounce(p) ==
    /\ Managed
    /\ job[p].at = "lock"
    /\ rwmu.w = 0
    /\ \A q \in Workers : job[q].at # "locking"
    /\ job' = [job EXCEPT ![p].at = "locking"]
    /\ UNCHANGED <<e, mu, rwmu, limit, wlLimit, whitelist, blacklist, added,
                   removed, lockFrame>>

\* r.rwmu.Lock(), second half: the readers have left and Lock returns.
AdminAcquire(p) ==
    /\ Managed
    /\ job[p].at = "locking"
    /\ rwmu.r = {}
    /\ rwmu' = [rwmu EXCEPT !.w = p]
    /\ job' = [job EXCEPT ![p].at = IF job[p].op = "reload" THEN "setWl" ELSE "set"]
    /\ UNCHANGED <<e, mu, limit, wlLimit, whitelist, blacklist, added, removed,
                   lockFrame>>

\* The sources' answers explored beside the locks: both files read, or the
\* blacklist file unreadable.
LockFetches ==
    {f \in ConfiguredFetches :
        /\ f["Whitelist"] = [ok |-> TRUE, ids |-> {}]
        /\ f["Blacklist"] \in {[ok |-> TRUE, ids |-> {1}], FetchFailed}}

\* A step in which a handler waits for a lock and gets it.
Acquire(p) ==
    \/ DecideRLock(p)
    \/ DecideMuLock(p)
    \/ HitsMuLock(p)
    \/ LimitGetRLock(p)
    \/ AdminAnnounce(p)
    \/ AdminAcquire(p)

\* A step of a handler that waits for nothing.
Proceed(p) ==
    \/ DecideReadBl(p)
    \/ DecideReadWl(p)
    \/ DecideIncr(p)
    \/ DecideReturn(p)
    \/ HitsBody(p)
    \/ LimitGetRead(p)
    \/ ListRead(p)
    \/ \E f \in LockFetches : FetchDone(p, f)
    \/ ReloadSetWl(p)
    \/ ReloadSetBl(p)
    \/ LimitSet(p)
    \/ EditWrite(p)

\* A request or a command arrives and its handler starts.
Arrive(p) ==
    \/ \E id \in ListedIDs : ServeStart(p, id)
    \/ \E op \in HitsOps, id \in ListedIDs : StartHits(p, op, id)
    \/ \E which \in {"limit", "wllimit"} : StartLimitGet(p, which)
    \/ \E l \in ListNames, id \in ListedIDs : StartListGet(p, l, id)
    \/ StartFetch(p)
    \/ StartLimit(p, "limit", 0)
    \/ \E op \in {"add", "remove"}, id \in ListedIDs : StartEdit(p, op, "bl", id)

NextLocks ==
    \/ \E p \in Workers : Arrive(p) \/ Acquire(p) \/ Proceed(p)
    \/ Throw

\* func New with a whitelist file, a blacklist file and the console, both
\* files read, no id listed, no limit.
InitLocks ==
    /\ InitCommon
    /\ e = newExpiryMap(1)
    /\ config = [CreateConfig(1) EXCEPT !.Whitelist = TRUE, !.Blacklist = TRUE,
                                        !.Console = TRUE, !.ConsoleAddress = TRUE]
    /\ limit = -1
    /\ wlLimit = -1
    /\ whitelist = {}
    /\ blacklist = {}

SpecLocks == InitLocks /\ [][NextLocks]_vars

\* The scheduler runs every goroutine that can take a step, sync.Mutex and
\* sync.RWMutex hand the lock to a goroutine that keeps waiting for it (the
\* mutex's starvation mode, the RWMutex's turn-taking of readers and
\* writers), and a source that is read answers or fails.  No arrival is
\* required, and neither is the runtime's detection of a map race.
FairLocks ==
    \A p \in Workers : WF_vars(Proceed(p)) /\ SF_vars(Acquire(p))

SpecLocksFair == SpecLocks /\ FairLocks

(***************************************************************************)
(* Properties.                                                             *)
(***************************************************************************)
\* The entry the index holds for a tracked id.
entry(id) == e.hits[e.idxs[id]]

\* The step completed a request for id, or a get command for id.
Served(id) == last'.op = "ServeHTTP" /\ last'.id = id
Got(id) == last'.op = "get" /\ last'.id = id

\* No occupied slot has expired.
NoneExpired == \A j \in window(e) : e.hits[j].expires >= now

\* C1: for every id a request can carry, the number of ids in the index and
\* the occupied size of the queue are both at most the capacity.
C1_CapacityInvariant ==
    /\ Cardinality(DOMAIN e.idxs) <= e.cap
    /\ e.size <= e.cap

\* C2: for ids other than the sentinel, every id in the index maps to a slot
\* of the occupied window that stores this id, and every occupied slot whose
\* id is not in the index carries the sentinel.
C2_IndexSlotConsistent ==
    /\ \A id \in DOMAIN e.idxs :
          /\ e.idxs[id] \in window(e)
          /\ e.hits[e.idxs[id]].id = id
    /\ \A j \in window(e) :
          e.hits[j].id \notin DOMAIN e.idxs => e.hits[j].id = isDeletedID

\* C2 witness: a full window that holds a superseded slot beside a tracked id.
C2_Witness ==
    /\ e.size = e.cap
    /\ \E j \in window(e) : e.hits[j].id = isDeletedID
    /\ \E id \in TgIDs : has(e.idxs, id)

\* C3 as stated: a hit on a tracked id at or after the entry's expiry time
\* T0 + t returns 1, a hit strictly before it returns the count plus 1.
C3_Original ==
    [][\A id \in TgIDs :
          (Served(id) /\ ServeHTTP(id) /\ has(e.idxs, id)) =>
              /\ now >= entry(id).expires => last'.ret = 1
              /\ now < entry(id).expires => last'.ret = entry(id).hits + 1]_vars

\* C3 amended: a hit on a tracked id strictly after the entry's expiry time
\* T0 + t returns 1, a hit at or before it returns the count plus 1.
C3_TTL ==
    [][\A id \in TgIDs :
          (Served(id) /\ ServeHTTP(id) /\ has(e.idxs, id)) =>
              /\ now > entry(id).expires => last'.ret = 1
              /\ now <= entry(id).expires => last'.ret = entry(id).hits + 1]_vars

\* C3 witness: a hit served in the very second its entry expires kept counting.
C3_Witness ==
    /\ last.op = "ServeHTTP"
    /\ last.id \in TgIDs
    /\ has(e.idxs, last.id)
    /\ entry(last.id).expires = now
    /\ last.ret = 2

\* C4: with no entry expired, after cap + 1 distinct ids were hit once each in
\* order, get of the first is 0 and get of each other is 1; and a hit that
\* inserts a new id into a full store removes the entry created earliest and
\* leaves every other entry as it was.
C4_EvictionOrder ==
    /\ [](firstHits.on /\ Len(firstHits.ids) = e.cap + 1 /\ NoneExpired =>
            /\ get(e, firstHits.ids[1], now) = 0
            /\ \A i \in 2..Len(firstHits.ids) : get(e, firstHits.ids[i], now) = 1)
    /\ [][\A id \in TgIDs :
            (Served(id) /\ ServeHTTP(id) /\ full(e) /\ NoneExpired /\ ~has(e.idxs, id)) =>
                /\ DOMAIN e'.idxs = ((DOMAIN e.idxs) \ {Head(born)}) \cup {id}
                /\ \A k \in (DOMAIN e.idxs) \ {Head(born)} :
                      e'.hits[e'.idxs[k]] = entry(k)]_vars

\* C4 witness: cap + 1 distinct ids were hit, and get of the first returned 0.
C4_Witness ==
    /\ firstHits.on
    /\ Len(firstHits.ids) = e.cap + 1
    /\ NoneExpired
    /\ last.op = "get"
    /\ last.id = firstHits.ids[1]
    /\ last.ret = 0

\* C5: a request for a blacklisted id is rejected, whatever the limits and the
\* whitelist say, and leaves the counter store as it was.
C5_DenyPrecedence ==
    [][\A id \in TgIDs :
          (Served(id) /\ ServeHTTP(id) /\ id \in blacklist) =>
              /\ last'.rejected
              /\ ~last'.next
              /\ e' = e]_vars

\* C5 witness: an id on both lists was rejected with no limit set, and the
\* store holds no entry for it.
C5_Witness ==
    /\ last.op = "ServeHTTP"
    /\ last.id \in blacklist \cap whitelist
    /\ last.rejected
    /\ limit = -1
    /\ wlLimit = -1
    /\ e.size = 1
    /\ ~has(e.idxs, last.id)

\* C6: for an id on neither list, the hit that brings the count of its running
\* window from c to c + 1 is rejected exactly when a limit is set and c + 1
\* exceeds it: limit 0 rejects the first hit, limit -1 none, limit k > 0 the
\* hits after the k-th.
C6_LimitSemantics ==
    [][\A id \in TgIDs :
          (Served(id) /\ ServeHTTP(id) /\ id \notin blacklist /\ id \notin whitelist) =>
              LET c == get(e, id, now)
              IN  /\ last'.ret = c + 1
                  /\ get(e', id, now) = c + 1
                  /\ limit = 0 => last'.rejected
                  /\ limit = -1 => ~last'.rejected
                  /\ limit > 0 => (last'.rejected <=> c + 1 > limit)]_vars

\* C6 witness: with limit k > 0, hit k + 1 of a regular id was rejected.
C6_Witness ==
    /\ limit > 0
    /\ last.op = "ServeHTTP"
    /\ last.id \in TgIDs \ (blacklist \cup whitelist)
    /\ last.ret = limit + 1
    /\ last.rejected

\* C7: with a limit k >= 0 and no management command issued, no id off the
\* whitelist has more than k hits accepted within expire seconds of the hit
\* that created its entry.
C7_LimitIsCeiling ==
    (quota.on /\ limit >= 0) =>
        \A id \in DOMAIN quota.of : quota.of[id].n <= limit

\* C8: for an id on the whitelist and off the blacklist the hit is counted,
\* and it is rejected exactly when wlLimit >= 0 and the count exceeds wlLimit;
\* limit plays no part.
C8_AllowLimit ==
    [][\A id \in TgIDs :
          (Served(id) /\ ServeHTTP(id) /\ id \in whitelist /\ id \notin blacklist) =>
              LET c == get(e, id, now)
              IN  /\ last'.ret = c + 1
                  /\ get(e', id, now) = c + 1
                  /\ last'.rejected <=> (wlLimit >= 0 /\ c + 1 > wlLimit)]_vars

\* C8 witness: with wlLimit -1 and limit 0 a whitelisted id was accepted and
\* its hit counted.
C8_Witness ==
    /\ wlLimit = -1
    /\ limit = 0
    /\ last.op = "ServeHTTP"
    /\ last.id \in whitelist \ blacklist
    /\ ~last.rejected
    /\ last.ret = 2
    /\ get(e, last.id, now) = 2

\* C9: a goroutine between the Lock and the deferred Unlock of a store method
\* holds the mutex and holds it alone, a goroutine outside holds nothing, and
\* the counts that the incNGet calls on an id return while its entry lives are
\* 1, 2, 3, ... in the order of their return: concurrent calls on an entry of
\* count c return c + 1 .. c + n, each once.
C9_AtomicCounting ==
    /\ \A p \in Procs :
          (pc[p] \in {"lookup", "load", "store", "return", "body", "Unlock"})
              <=> (mu = p)
    /\ \A id \in DOMAIN rets :
          \A i \in 1..Len(rets[id]) : rets[id][i] = i

\* C9 witness: an incNGet call that started on a live entry of count c is
\* about to return c + 2, after a call that overlapped it returned c + 1.
C9_Witness ==
    \E p \in Procs :
        /\ pc[p] = "Unlock"
        /\ call[p].op = "incNGet"
        /\ call[p].c0 >= 0
        /\ call[p].ret = call[p].c0 + 2
        /\ has(rets, call[p].id)
        /\ rets[call[p].id] # <<>>
        /\ rets[call[p].id][Len(rets[call[p].id])] = call[p].c0 + 1

\* C10: get returns 0 for an id with no entry or an expired entry and the
\* entry's count otherwise; right after a hit on an id, get of that id is the
\* value the hit returned.
C10_Get ==
    [][\A id \in TgIDs :
          /\ (Got(id) /\ HitsGet(id)) =>
                last'.ret = IF has(e.idxs, id) /\ entry(id).expires >= now
                            THEN entry(id).hits
                            ELSE 0
          /\ (Served(id) /\ ServeHTTP(id) /\ id \notin blacklist) =>
                get(e', id, now') = last'.ret]_vars

\* C10 witness: get returned the count 2 of a live entry.
C10_Witness ==
    /\ last.op = "get"
    /\ last.id \in TgIDs
    /\ has(e.idxs, last.id)
    /\ entry(last.id).hits = 2
    /\ entry(last.id).expires >= now
    /\ last.ret = 2

\* C11: a get command, for any id and whatever became of its entry, leaves
\* the index, every slot, head and size as they were.
C11_GetReadOnly ==
    [][\A id \in TgIDs : (Got(id) /\ HitsGet(id)) => e' = e]_vars

\* C11 witness: get returned the count of a live entry in the very second the
\* entry expires, and the entry still expires then.
C11_Witness ==
    /\ last.op = "get"
    /\ last.id \in TgIDs
    /\ has(e.idxs, last.id)
    /\ last.ret >= 1
    /\ entry(last.id).hits = last.ret
    /\ entry(last.id).expires = now

\* The step completed a reset command for id.
WasReset(id) == last'.op = "reset" /\ last'.id = id

\* C12 as stated: reset returns true exactly when the id has an entry that has
\* not expired, and then the entry's count is 0.
C12_Original ==
    [][\A id \in TgIDs :
          (WasReset(id) /\ HitsReset(id)) =>
              /\ last'.found <=> (has(e.idxs, id) /\ ~expired(e, e.idxs[id], now))
              /\ last'.found => e'.hits[e'.idxs[id]].hits = 0]_vars

\* C12 amended: reset returns true exactly when the id is in the index, its
\* entry expired or not, and then the entry's count is 0.
C12_Reset ==
    [][\A id \in TgIDs :
          (WasReset(id) /\ HitsReset(id)) =>
              /\ last'.found <=> has(e.idxs, id)
              /\ last'.found => e'.hits[e'.idxs[id]].hits = 0]_vars

\* C12 witness: reset returned true for an entry that had expired, and set its
\* count to 0.
C12_Witness ==
    /\ last.op = "reset"
    /\ last.id \in TgIDs
    /\ last.found
    /\ has(e.idxs, last.id)
    /\ entry(last.id).expires < now
    /\ entry(last.id).hits = 0

\* C13: a reset command for id changes nothing but the count in the slot of
\* id: the index, head, size, every slot's id and expiry and every other
\* slot's count stay; and the next hit on id within the entry's time returns 1
\* in the same slot with the same expiry.
C13_ResetFrame ==
    [][\A id \in TgIDs :
          /\ (WasReset(id) /\ HitsReset(id)) =>
                /\ e'.idxs = e.idxs
                /\ e'.head = e.head
                /\ e'.size = e.size
                /\ e'.cap = e.cap
                /\ \A j \in DOMAIN e.hits :
                      /\ e'.hits[j].id = e.hits[j].id
                      /\ e'.hits[j].expires = e.hits[j].expires
                      /\ (has(e.idxs, id) /\ j = e.idxs[id])
                            \/ e'.hits[j].hits = e.hits[j].hits
          /\ (/\ Served(id) /\ ServeHTTP(id)
              /\ has(e.idxs, id)
              /\ entry(id).hits = 0
              /\ entry(id).expires >= now) =>
                /\ last'.ret = 1
                /\ e'.idxs = e.idxs
                /\ e'.hits[e'.idxs[id]].expires = entry(id).expires
                /\ e'.head = e.head /\ e'.size = e.size]_vars

\* C13 witness: a reset zeroed a live entry in the last second of its time,
\* in a table that holds another id's entry beside it.
C13_Witness ==
    /\ last.op = "reset"
    /\ last.id \in TgIDs
    /\ last.found
    /\ now > 0
    /\ has(e.idxs, last.id)
    /\ entry(last.id).hits = 0
    /\ entry(last.id).expires = now
    /\ \E k \in DOMAIN e.idxs : k # last.id /\ entry(k).hits >= 1

\* C14: a list command returns exactly one pair for every id in the index,
\* with the count of the id's entry, and no pair for any other key.
C14_Snapshot ==
    [][(last'.op = "list" /\ HitsList) =>
          last'.all = [id \in DOMAIN e.idxs |-> entry(id).hits]]_vars

\* The step completed a reload command.
Reloaded == last'.op = "reload"

\* C15: a reload in which the fetch of a configured source fails leaves the
\* whitelist and the blacklist exactly as they were before it, also when an
\* earlier source of the same reload was read.
C15_FailedReloadKeepsLists ==
    [][(Reloaded /\ last'.err) =>
          (whitelist' = whitelist /\ blacklist' = blacklist)]_vars

\* A reload has just failed after it read a whitelist source, and the lists
\* still hold ids that only single-id commands can have put there.
C15_Witness ==
    /\ last.op = "reload"
    /\ last.err
    /\ last.ret >= 1
    /\ config.Whitelist
    /\ whitelist = {2}
    /\ blacklist = {2}

\* C16: a list source that cannot be fetched is reported to the caller of the
\* reload: New returns the error and no filter, and the reload command answers
\* with an error status, not with a success status.
C16_FetchErrorReported ==
    /\ (last.op = "New" /\ config.HitTableSize > 0 /\ nilLists) =>
           (last.err /\ inst # "serving")
    /\ (last.op = "reload" /\ last.err) => last.status >= 400

\* C20: New on a configuration with a table size of 0 or less, or with the
\* console on and no console address, returns an error and no filter, and the
\* filter never serves.
C20_ConfigErrorsFatal ==
    (config.HitTableSize <= 0 \/ (config.Console /\ ~config.ConsoleAddress)) =>
        /\ inst # "serving"
        /\ inst # "none" => (inst = "failed" /\ last.op = "New" /\ last.err)

\* C17: a reload replaces each list by what was read from its sources, ids
\* that were in the old list and are in no source are gone, and no decision
\* looks an id up in the blacklist of one reload and the whitelist of another.
C17_ReloadAtomic ==
    /\ [](\A p \in Workers : ~job[p].mixed)
    /\ [][\A p \in Workers :
            /\ (job[p].at = "setWl" /\ ReloadSetWl(p)) =>
                   (whitelist' = job[p].wl /\ whitelist' \cap (whitelist \ job[p].wl) = {})
            /\ (job[p].at = "setBl" /\ ReloadSetBl(p)) =>
                   (blacklist' = job[p].bl /\ blacklist' \cap (blacklist \ job[p].bl) = {}
                    /\ whitelist' = whitelist)]_vars

\* A decision has looked its id up in both lists and holds the shared lock,
\* while a reload that will empty the whitelist waits for the lock.
C17_Witness ==
    \E p, q \in Workers :
        /\ job[p].op = "decide" /\ job[p].at = "count" /\ job[p].isWl
        /\ p \in rwmu.r
        /\ job[q].op = "reload" /\ job[q].at = "lock"
        /\ whitelist = {1} /\ job[q].wl = {}

\* A goroutine is at a write of a list or of a limit.
mutating(p) == job[p].at \in {"write", "setWl", "setBl", "set"}

\* C18: whoever writes the whitelist, the blacklist or a limit (a reload, a
\* single-id add or remove, a limit change) holds rwmu exclusively, so no
\* decision holds the shared lock while the write is made.
C18_LockDiscipline ==
    \A p \in Workers : mutating(p) => (rwmu.w = p /\ rwmu.r = {})

\* C19: an id whose add to a list was answered with success is in the list,
\* and an id whose remove was answered is not, as long as no later command
\* or reload has undone it, also when a reload ran beside the command.
C19_EditsOnLiveSet ==
    \A l \in ListNames :
        /\ added[l] \subseteq listOf(l)
        /\ removed[l] \cap listOf(l) = {}

\* The step completed a request whose body gave no id.
ServedNoID == last'.op = "ServeHTTP" /\ last'.id = NoID

Supported(path) ==
    CASE path = "reload" -> {"POST"}
      [] path = "hits" -> {"GET"}
      [] path = "hits/id" -> {"GET", "DELETE"}
      [] path = "list/l/id" -> {"GET", "PUT", "DELETE"}
      [] path \in {"limit", "wllimit"} -> {"GET", "PUT"}
      [] OTHER -> {}

\* The request has an id segment that is no number, a list segment that is
\* no list, or a limit body that is no number.
Malformed(req) ==
    \/ req.path \in {"hits/id", "list/l/id"} /\ req.id = NoID
    \/ req.path = "list/l/id" /\ req.list \notin ListNames
    \/ req.path \in {"limit", "wllimit"} /\ req.method = "PUT" /\ ~req.body.ok

\* The hit table, the lists and the limits are as before the step.
Untouched ==
    /\ e' = e
    /\ whitelist' = whitelist /\ blacklist' = blacklist
    /\ limit' = limit /\ wlLimit' = wlLimit

\* C23: on a documented path a verb that is not supported gets 405 and does
\* nothing; a malformed id and an unknown path get a 4xx status; a mutation
\* answers 201 or 204, which carry no body, and a read answers 200 with a
\* body.
C23_ResponseCodes ==
    [][\A req \in Requests :
          (last'.id = req.id /\ serveManagement(req)) =>
              IF req.path = "other" THEN last'.status \in 400..499
              ELSE IF req.method \notin Supported(req.path)
              THEN (last'.status = 405 \/ (Malformed(req) /\ last'.status \in 400..499))
                   /\ Untouched
              ELSE IF Malformed(req) THEN last'.status \in 400..499
              ELSE IF req.method = "GET" THEN last'.status = 200
              ELSE last'.status \in {201, 204}]_vars

\* The request ends in an error: unknown path, unsupported verb, malformed
\* id, unknown list or unparsable limit.
IsError(req) ==
    req.path = "other" \/ req.method \notin Supported(req.path) \/ Malformed(req)

\* C24: a management command that ends in an error leaves the hit table,
\* both lists and both limits as they were.
C24_ErrorsChangeNothing ==
    [][\A req \in Requests :
          (~Untouched /\ IsError(req)) => ~serveManagement(req)]_vars

\* A command has just been answered with an error status while the table
\* counts an id, a limit is set and the whitelist is not empty.
C24_Witness ==
    /\ last.op = "answer" /\ last.err /\ last.status >= 400
    /\ limit = 1
    /\ whitelist # {}
    /\ \E id \in DOMAIN e.idxs : entry(id).hits >= 1

\* The limit that decides about id: wlLimit on the whitelist, limit off it.
SetFor(id) == IF id \in whitelist THEN "setwllimit" ELSE "setlimit"

\* C25: a limit command leaves the counts alone, and the request that comes
\* right after it is judged by the new limit against the count its id has
\* already: set to k >= 0, a request of an id off the blacklist whose live
\* entry counts k or more is rejected; set to -1, it is accepted.
C25_LimitChangeImmediate ==
    /\ [][\A which \in {"limit", "wllimit"}, v \in SetLimits :
            (last'.op = "set" \o which /\ LimitPut(which, v)) => e' = e]_vars
    /\ [][\A id \in ListedIDs :
            (/\ last.op = SetFor(id)
             /\ Served(id)
             /\ ServeHTTP(id)
             /\ id \notin blacklist) =>
                LET k == last.ret
                    live == has(e.idxs, id) /\ ~expired(e, e.idxs[id], now)
                IN  /\ (k >= 0 /\ live /\ entry(id).hits >= k) => last'.rejected
                    /\ k = -1 => ~last'.rejected]_vars

\* The limit has just been set to 1 while a regular id has a live entry that
\* counts 1 or more.
C25_Witness ==
    /\ last.op = "setlimit" /\ last.ret = 1 /\ limit = 1
    /\ \E id \in ListedIDs :
          /\ id \notin whitelist /\ id \notin blacklist
          /\ has(e.idxs, id)
          /\ ~expired(e, e.idxs[id], now)
          /\ entry(id).hits >= 1

\* The step served a request for id that made a new entry for it.
Inserts(id) ==
    /\ Served(id)
    /\ e' # e
    /\ ~has(e.idxs, id) \/ expired(e, e.idxs[id], now)

\* The ids whose entry lies in the head slot.
keysAtHead == {k \in DOMAIN e.idxs : e.idxs[k] = e.head}

\* C26: once a hit on an id whose entry had expired made a fresh entry, the
\* eviction of the old slot takes nothing from the index.  An insertion into
\* a full store whose head slot holds the entry of no id, or only the expired
\* entry the very hit supersedes, keeps every other id with its slot, count
\* and expiry, and tracks the hit id with count 1 and a new expiry; and in
\* every step an entry stays as it is unless its id is hit or reset or its
\* slot is the head slot of a full store an insertion frees, so that get
\* returns its count until it expires.
C26_SupersessionSafe ==
    /\ [][\A id \in TgIDs :
            (Inserts(id) /\ ServeHTTP(id) /\ full(e) /\ keysAtHead \subseteq {id}) =>
                /\ DOMAIN e'.idxs = (DOMAIN e.idxs) \cup {id}
                /\ \A k \in (DOMAIN e.idxs) \ {id} :
                      /\ e'.idxs[k] = e.idxs[k]
                      /\ e'.hits[e'.idxs[k]] = entry(k)
                      /\ get(e', k, now') = get(e, k, now)
                /\ e'.hits[e'.idxs[id]] = expiryHits(id, 1, now + expire)
                /\ get(e', id, now') = 1]_vars
    /\ [][\A k \in DOMAIN e.idxs :
            (/\ ~Served(k)
             /\ ~WasReset(k)
             /\ ~(full(e) /\ e.idxs[k] = e.head /\ \E id \in TgIDs : Inserts(id))) =>
                /\ has(e'.idxs, k)
                /\ e'.hits[e'.idxs[k]] = entry(k)
                /\ ~expired(e', e'.idxs[k], now') => get(e', k, now') = entry(k).hits]_vars

\* C26 witness: a hit on an id whose entry had expired has just made the
\* fresh entry, the store is full and the superseded slot is its head slot,
\* the one the next insertion frees.
C26_Witness ==
    /\ last.op = "ServeHTTP" /\ last.id \in TgIDs /\ last.ret = 1
    /\ has(e.idxs, last.id)
    /\ entry(last.id) = expiryHits(last.id, 1, now + expire)
    /\ full(e)
    /\ e.hits[e.head].id = isDeletedID
    /\ keysAtHead = {}

\* C29: a hit on an id whose entry has not expired adds exactly 1 to the
\* count of that entry and returns the new count; the entry's expiry and id,
\* its slot, the head, the size, the index and every other slot stay as they
\* were.
C29_LiveHitIsIncrement ==
    [][\A id \in TgIDs :
          (/\ Served(id)
           /\ ServeHTTP(id)
           /\ has(e.idxs, id)
           /\ ~expired(e, e.idxs[id], now)) =>
              /\ e'.idxs = e.idxs
              /\ e'.head = e.head /\ e'.size = e.size /\ e'.cap = e.cap
              /\ \A j \in DOMAIN e.hits : j # e.idxs[id] => e'.hits[j] = e.hits[j]
              /\ e'.hits[e.idxs[id]].id = id
              /\ e'.hits[e.idxs[id]].expires = entry(id).expires
              /\ e'.hits[e.idxs[id]].hits = entry(id).hits + 1
              /\ last'.ret = entry(id).hits + 1]_vars

\* C29 witness: the second hit of an id came a second after the first, beside
\* the entry of another id, and the entry still ends when the first hit set it.
C29_Witness ==
    /\ last.op = "ServeHTTP" /\ last.id \in TgIDs /\ last.ret = 2
    /\ has(e.idxs, last.id)
    /\ entry(last.id).hits = 2
    /\ entry(last.id).expires < now + expire
    /\ \E k \in DOMAIN e.idxs : k # last.id /\ entry(k).hits >= 1

\* C30: for every id a request can carry, the sentinel among them, a hit on
\* an id leaves the count that get reports for any other id that is tracked
\* before and after it, and every id in the index maps to a slot that stores
\* this id.
C30_Isolation ==
    /\ [](\A k \in DOMAIN e.idxs : e.hits[e.idxs[k]].id = k)
    /\ [][\A a \in AnyIDs : \A b \in AnyIDs \ {a} :
            (/\ Served(a)
             /\ ServeHTTP(a)
             /\ has(e.idxs, b)
             /\ has(e'.idxs, b)) =>
                get(e', b, now') = get(e, b, now)]_vars

\* C28: a reload holds r.rwmu exclusively exactly while it assigns the two
\* lists; while it reads its sources, and while it waits in r.rwmu.Lock(),
\* it holds neither r.rwmu, exclusively or shared, nor the store's mutex, and
\* during the fetch it has not announced itself as a writer either, so that
\* nothing of the reload keeps a decision from the shared lock.
C28_FetchOutsideLock ==
    \A p \in Workers :
        job[p].op = "reload" =>
            /\ job[p].at \in {"fetch", "lock", "locking", "setWl", "setBl"}
            /\ rwmu.w = p <=> job[p].at \in {"setWl", "setBl"}
            /\ p \notin rwmu.r
            /\ mu # p
            /\ (job[p].at = "fetch" /\ \A q \in Workers \ {p} : job[q].at = "idle") =>
                  (canRLock /\ canLock /\ mu = 0)

\* C28 witness: a reload is still reading its sources, and a decision that
\* started after the reload did has counted its hit and returned.
C28_Witness ==
    \E p \in Workers :
        /\ job[p].op = "reload" /\ job[p].at = "fetch" /\ job[p].seen
        /\ rwmu = [w |-> 0, r |-> {}] /\ mu = 0
        /\ \E id \in DOMAIN e.idxs : entry(id).hits >= 1

\* A goroutine holds none of the two locks.
holdsNoLock(p) == rwmu.w # p /\ p \notin rwmu.r /\ mu # p

\* C27: with fair scheduling, every handler that started, whether of a
\* request or of a command of the console (hits list, get and reset, list
\* get, add and remove, limit get and set, reload), returns in the end, and a
\* handler that has returned holds neither r.rwmu nor the store's mutex.
C27_Completion ==
    /\ [](\A p \in Workers : job[p].at = "idle" => holdsNoLock(p))
    /\ \A p \in Workers : (job[p].at # "idle") ~> (job[p].at = "idle")

\* The slot that is i places behind the head of the queue.
slotAt(m, i) == (m.head + i) % m.cap

\* C31: with the one expire period of the configuration and a clock that
\* does not run backwards, the expiry times of the occupied slots do not
\* decrease from the head of the queue to its tail, and an insertion into a
\* full store that removes the entry of an id removes one whose expiry time
\* is the smallest among the tracked entries.
C31_QueueOrderIsExpiryOrder ==
    /\ [](\A i, j \in 0..(e.size - 1) :
            i < j => e.hits[slotAt(e, i)].expires <= e.hits[slotAt(e, j)].expires)
    /\ [][\A id \in TgIDs :
            (/\ Inserts(id)
             /\ ServeHTTP(id)
             /\ full(e)
             /\ e.hits[e.head].id \in DOMAIN e.idxs
             /\ e.hits[e.head].id \notin DOMAIN e'.idxs) =>
                \A k \in DOMAIN e.idxs : e.hits[e.head].expires <= entry(k).expires]_vars

\* C31 witness: a store of two slots is full after an eviction moved its
\* head, both slots hold entries of ids, and the one at the head expires
\* strictly earlier than the one behind it.
C31_Witness ==
    /\ e.cap = 2 /\ e.size = 2 /\ e.head = 1
    /\ \A i \in 0..1 : e.hits[i].id \in DOMAIN e.idxs
    /\ e.hits[slotAt(e, 0)].expires < e.hits[slotAt(e, 1)].expires

\* C32: when reloads overlap and the sources change between their reads,
\* the reload that completes last, no other reload being under way, is not
\* one that read its sources before another reload read different contents:
\* what it assigns to the lists is what was read last.
C32_NoStaleInstall ==
    [][\A p \in Workers :
          (/\ job[p].op = "reload" /\ job[p].at = "setBl"
           /\ ReloadSetBl(p)
           /\ \A q \in Workers \ {p} : job[q].op # "reload") =>
              ~job[p].older]_vars

=============================================================================
